---- MODULE Spec2Model ----
(***************************************************************************)
(* Model of src/app.py: the Streamlit operations dashboard.  One run of   *)
(* the script is load_data -> sidebar filters -> df_f -> one screen.      *)
(*                                                                         *)
(* A table cell is <<>> (null: NaN / NaT / None) or <<v>> (a value).      *)
(* Dates are day numbers, day 1 = 2024-01-01 (a Monday); money and        *)
(* quantities are integers; a quotient is a reduced pair <<num, den>>.    *)
(***************************************************************************)
EXTENDS Integers, Sequences, FiniteSets, TLC

VARIABLES
    source,        \* data.csv as found on disk (or not found)
    pc,            \* where the script run stands
    df,            \* the module-level table (line 109)
    min_date,      \* line 130
    max_date,      \* line 131
    start_date,    \* line 138
    end_date,      \* line 139
    sel_category,  \* line 144
    sel_channel,   \* line 145
    df_f,          \* the filtered copy (line 153)
    nav,           \* the screen chosen (line 124)
    view           \* what the chosen screen computed and showed

vars == <<source, pc, df, min_date, max_date, start_date, end_date, sel_category,
          sel_channel, df_f, nav, view>>

(* ------------------------------ bounds -------------------------------- *)

\* most rows a source table holds
MaxRows == 4

(* ------------------------------- cells -------------------------------- *)

NaN == <<>>

V(x) == <<x>>

isna(c) == c = NaN

\* Series.dropna().unique() of column c
Uniq(rows, c) == { rows[i][c][1] : i \in { j \in DOMAIN rows : ~isna(rows[j][c]) } }

RECURSIVE SumCol(_, _)
\* Series.sum(): nulls are skipped, the empty sum is 0
SumCol(rows, c) ==
    IF rows = <<>> THEN 0
    ELSE (IF isna(Head(rows)[c]) THEN 0 ELSE Head(rows)[c][1]) + SumCol(Tail(rows), c)

RECURSIVE Gcd(_, _)
Gcd(a, b) == IF b = 0 THEN a ELSE Gcd(b, a % b)

Abs(x) == IF x < 0 THEN -x ELSE x

\* true division n / d (d # 0) as a reduced fraction with a positive denominator
Ratio(n, d) ==
    LET g == Gcd(Abs(n), Abs(d))
        s == IF d < 0 THEN -1 ELSE 1
    IN  <<(s * n) \div g, (s * d) \div g>>

(* ----------------------------- calendar ------------------------------- *)

\* pd.to_datetime(..., errors="coerce") on one cell: an ISO date string
\* becomes its day, anything else (empty, unparseable, null) becomes NaT
to_datetime(c) ==
    IF isna(c) THEN NaN
    ELSE CASE c[1] = "2024-01-03" -> V(3)
           [] c[1] = "2024-01-05" -> V(5)
           [] c[1] = "2024-01-20" -> V(20)
           [] c[1] = "2024-03-10" -> V(70)
           [] OTHER -> NaN

\* last day of each month of 2024, as day numbers
MonthEnds == <<31, 60, 91, 121>>

\* Timestamp.to_period("M"): the month a day falls in
MonthOf(d) ==
    CHOOSE m \in DOMAIN MonthEnds :
        /\ d <= MonthEnds[m]
        /\ (m = 1 \/ d > MonthEnds[m - 1])

\* label of the pd.Grouper(freq=...) bin a day falls in: the day itself,
\* the Sunday closing its week (W-SUN), or the last day of its month
BinLabel(freq, d) ==
    CASE freq = "D" -> d
      [] freq = "W" -> ((d + 6) \div 7) * 7
      [] freq = "M" -> MonthEnds[MonthOf(d)]

\* all the bin labels of that frequency, over the modelled calendar
AllBins(freq) == { BinLabel(freq, d) : d \in 1..MonthEnds[Len(MonthEnds)] }

\* Timestamp.now().normalize(): the days a run may take place on
Todays == {70, 75}

(* ------------------------------ source -------------------------------- *)

expected == {"date", "order_id", "product_id", "sku", "product_name", "category",
             "price", "cost", "qty", "revenue", "channel", "city", "warehouse",
             "inventory_on_hand", "ltv", "customer_id", "first_order", "spend",
             "visits", "add_to_cart", "checkout", "first_order_date"}

\* columns carried by the modelled data.csv
CsvCols == {"date", "order_id", "product_id", "product_name", "category", "price",
            "cost", "qty", "revenue", "channel", "warehouse", "inventory_on_hand",
            "customer_id", "spend", "first_order_date"}

CsvRow(date, oid, pid, pname, cat, price, cost, qty, rev, ch, wh, inv, cust, spend, fod) ==
    [date |-> date, order_id |-> oid, product_id |-> pid, product_name |-> pname,
     category |-> cat, price |-> price, cost |-> cost, qty |-> qty, revenue |-> rev,
     channel |-> ch, warehouse |-> wh, inventory_on_hand |-> inv, customer_id |-> cust,
     spend |-> spend, first_order_date |-> fod]

\* the lines data.csv may hold (as read by pd.read_csv)
CsvLines == <<
    CsvRow(V("2024-01-03"), V(1), V(1), V("P"), V("A"), V(10), V(4), V(1), V(10),
           V("web"), V("N"), V(5), V(1), V(2), V("2024-01-03")),
    CsvRow(V("2024-01-05"), V(1), V(2), V("P"), V("B"), V(3), V(1), V(2), V(6),
           V("store"), V("S"), V(0), V(1), V(0), V("2024-01-03")),
    CsvRow(V("2024-03-10"), V(2), V(3), V("Q"), V("A"), V(7), V(5), V(1), V(7),
           NaN, NaN, NaN, V(2), NaN, V("2024-03-10")),
    CsvRow(V("n/a"), NaN, V(4), NaN, NaN, NaN, NaN, NaN, V(4),
           V("web"), V("N"), V(2), NaN, V(3), V("n/a")),
    CsvRow(V(""), V(3), V(5), V("S"), V("B"), V(2), V(2), V(3), V(6),
           V("store"), V("S"), V(1), V(3), V(1), V("2024-01-20")),
    CsvRow(V("2024-01-20"), V(4), V(6), V("R"), V("A"), V(5), V(1), V(1), NaN,
           V("web"), V("N"), V(4), V(2), V(-1), NaN) >>

RECURSIVE PickLines(_, _)
\* the lines of CsvLines numbered in S, in file order
PickLines(S, i) ==
    IF i > Len(CsvLines) THEN <<>>
    ELSE (IF i \in S THEN <<CsvLines[i]>> ELSE <<>>) \o PickLines(S, i + 1)

\* a data.csv: the header's columns and the lines under it
CsvFile(cols, S) ==
    [exists |-> TRUE, cols |-> cols,
     rows |-> [i \in 1..Cardinality(S) |-> [c \in cols |-> PickLines(S, 1)[i][c]]]]

NoFile == [exists |-> FALSE, cols |-> {}, rows |-> <<>>]

\* headers a data.csv may come with: complete, no spend column, no date column
Headers == {CsvCols, CsvCols \ {"spend"}, CsvCols \ {"date"}}

Sources ==
    {NoFile} \cup
    { CsvFile(h, S) : h \in Headers,
                      S \in { T \in SUBSET DOMAIN CsvLines : Cardinality(T) <= MaxRows } }

(* ----------------------------- load_data ------------------------------ *)

\* lines 73-88: the table read, or the empty table with the expected columns
ReadCsv(src) ==
    IF src.exists THEN [cols |-> src.cols, rows |-> src.rows]
    ELSE [cols |-> expected, rows |-> <<>>]

\* lines 89-93: the date column parsed, or created as NaT
ParseDate(t) ==
    [cols |-> t.cols \cup {"date"},
     rows |-> [i \in DOMAIN t.rows |->
                 [c \in t.cols \cup {"date"} |->
                    IF c = "date"
                    THEN (IF "date" \in t.cols THEN to_datetime(t.rows[i]["date"]) ELSE NaN)
                    ELSE t.rows[i][c]]]]

\* lines 94-102: every expected column that is missing is added as NaN
BackFill(t) ==
    [cols |-> t.cols \cup expected,
     rows |-> [i \in DOMAIN t.rows |->
                 [c \in t.cols \cup expected |->
                    IF c \in t.cols THEN t.rows[i][c] ELSE NaN]]]

\* the fallback left out: the table is returned as parsed
FallbackDateSkipped(t, now) == t

\* lines 103-105: when every date is NaT, every row gets today's date
FallbackDate(t, now) ==
    IF \A i \in DOMAIN t.rows : isna(t.rows[i]["date"])
    THEN [t EXCEPT !.rows = [i \in DOMAIN t.rows |-> [t.rows[i] EXCEPT !["date"] = V(now)]]]
    ELSE t

load_data(src, now) == FallbackDate(BackFill(ParseDate(ReadCsv(src))), now)

(* ------------------------ sidebar and filters -------------------------- *)

\* the dates the date_input widget may hand back
PickableDates == {3, 20, 70}

\* Series.min() / Series.max() of the date column (NaT skipped)
DateMin(rows) ==
    CHOOSE d \in Uniq(rows, "date") : \A e \in Uniq(rows, "date") : d <= e

DateMax(rows) ==
    CHOOSE d \in Uniq(rows, "date") : \A e \in Uniq(rows, "date") : d >= e

\* lines 130-131 (now: Timestamp.now().normalize() at that line)
MinDate(t, now) ==
    IF ~(\A i \in DOMAIN t.rows : isna(t.rows[i]["date"])) THEN DateMin(t.rows) ELSE now

MaxDate(t, now) ==
    IF ~(\A i \in DOMAIN t.rows : isna(t.rows[i]["date"])) THEN DateMax(t.rows) ELSE now

\* lines 142-143: the selectbox options
categories(t) == {"All"} \cup Uniq(t.rows, "category")

channels(t) == {"All"} \cup Uniq(t.rows, "channel")

\* the mask with the start of the range excluded
MaskOpenStart(r, s, e, cat, ch) ==
    /\ ~isna(r["date"]) /\ r["date"][1] > s
    /\ ~isna(r["date"]) /\ r["date"][1] <= e
    /\ (cat # "All" => r["category"] = V(cat))
    /\ (ch # "All" => r["channel"] = V(ch))

\* the mask with the two date bounds joined by | instead of &
MaskEitherBound(r, s, e, cat, ch) ==
    /\ \/ (~isna(r["date"]) /\ r["date"][1] >= s)
       \/ (~isna(r["date"]) /\ r["date"][1] <= e)
    /\ (cat # "All" => r["category"] = V(cat))
    /\ (ch # "All" => r["channel"] = V(ch))

\* lines 148-152, for one row: comparisons with a null cell are False
Mask(r, s, e, cat, ch) ==
    /\ ~isna(r["date"]) /\ r["date"][1] >= s
    /\ ~isna(r["date"]) /\ r["date"][1] <= e
    /\ (cat # "All" => r["category"] = V(cat))
    /\ (ch # "All" => r["channel"] = V(ch))

\* line 153: df.loc[mask].copy()
ApplyFilters(t, s, e, cat, ch) ==
    [cols |-> t.cols, rows |-> SelectSeq(t.rows, LAMBDA r : Mask(r, s, e, cat, ch))]

(* ----------------------------- group-by -------------------------------- *)

\* columns holding text; the others hold numbers
StrCols == {"product_name", "category", "channel", "warehouse", "sku", "city"}

\* the strings of the data, in sort order
StrOrder == <<"A", "B", "N", "P", "Q", "R", "S", "store", "web">>

StrRank(s) == CHOOSE i \in DOMAIN StrOrder : StrOrder[i] = s

\* order of two cells of column c; a null sorts last
CellLess(c, x, y) ==
    /\ ~isna(x)
    /\ \/ isna(y)
       \/ (IF c \in StrCols THEN StrRank(x[1]) < StrRank(y[1]) ELSE x[1] < y[1])

\* lexicographic order of two group keys over the key columns by
KeyLess(a, b, by) ==
    \E i \in DOMAIN by :
        /\ \A j \in 1..(i - 1) : a[by[j]] = b[by[j]]
        /\ CellLess(by[i], a[by[i]], b[by[i]])

Range(f) == { f[i] : i \in DOMAIN f }

\* the group keys of df.groupby(by, dropna=...), as a set
GroupKeys(rows, by, dropna) ==
    { [c \in Range(by) |-> rows[i][c]] :
        i \in { j \in DOMAIN rows : dropna => \A c \in Range(by) : ~isna(rows[j][c]) } }

\* the group keys in the order groupby lists them (sorted)
Groups(rows, by, dropna) ==
    LET K == GroupKeys(rows, by, dropna)
    IN  [i \in 1..Cardinality(K) |->
            CHOOSE k \in K : Cardinality({ y \in K : KeyLess(y, k, by) }) = i - 1]

\* the rows of one group
GroupRows(rows, k) == SelectSeq(rows, LAMBDA r : \A c \in DOMAIN k : r[c] = k[c])

\* df.groupby(by)[col].sum().reset_index(): an empty or all-null group sums to 0
GroupSum(rows, by, dropna, col) ==
    LET G == Groups(rows, by, dropna)
    IN  [i \in DOMAIN G |-> G[i] @@ (col :> SumCol(GroupRows(rows, G[i]), col))]

\* sort_values(col, ascending=False); rows with equal values are kept in
\* their order
SortDesc(t, col) ==
    LET Pos(i) == 1 + Cardinality({ j \in DOMAIN t :
                        t[j][col] > t[i][col] \/ (t[j][col] = t[i][col] /\ j < i) })
    IN  [p \in DOMAIN t |-> t[CHOOSE i \in DOMAIN t : Pos(i) = p]]

\* DataFrame.head(n)
head(t, n) == SubSeq(t, 1, IF n < Len(t) THEN n ELSE Len(t))

\* Series.nunique(): nulls are not counted
nunique(rows, c) == Cardinality(Uniq(rows, c))

\* Series.mean(): nulls skipped, null when nothing is left
mean(rows, c) ==
    LET n == Cardinality({ i \in DOMAIN rows : ~isna(rows[i][c]) })
    IN  IF n = 0 THEN NaN ELSE V(Ratio(SumCol(rows, c), n))

RECURSIVE SumField(_, _)
\* the sum of a column of a derived table
SumField(t, f) == IF t = <<>> THEN 0 ELSE Head(t)[f] + SumField(Tail(t), f)

(* ------------------------------ screens -------------------------------- *)

\* head(10) of the Home top-products table (line 220)
HomeTopN == 10

\* the slider of line 252: min_value, value, max_value
TopNMin == 3

TopNDefault == 8

TopNMax == 20

\* the slider positions explored
SliderStops == {TopNMin, TopNDefault, TopNMax}

\* head(20) of the top-customers table (line 334)
TopCustomers == 20

\* head(200) of the product table (line 284)
ProductRows == 200

\* head(50) of the low-stock table (line 298)
LowStockRows == 50

\* default of the stock-threshold input (line 296)
ThresholdDefault == 10

\* the thresholds explored (min_value=0)
Thresholds == {0, ThresholdDefault}

\* lines 185-187
total_revenue(t) ==
    IF "revenue" \in t.cols /\ ~(\A i \in DOMAIN t.rows : isna(t.rows[i]["revenue"]))
    THEN SumCol(t.rows, "revenue") ELSE 0

total_orders(t) ==
    IF "order_id" \in t.cols /\ ~(\A i \in DOMAIN t.rows : isna(t.rows[i]["order_id"]))
    THEN nunique(t.rows, "order_id") ELSE 0

\* the AOV with the revenue shown when there is no order
avg_aov_revenue(revenue, orders) ==
    IF orders # 0 THEN Ratio(revenue, orders) ELSE <<revenue, 1>>

avg_aov(revenue, orders) == IF orders # 0 THEN Ratio(revenue, orders) ELSE <<0, 1>>

\* line 188
new_customers(t) ==
    nunique(SelectSeq(t.rows, LAMBDA r : r["first_order"] = V(TRUE)), "customer_id")

\* a grouping by bin label that lists only the bins holding a row
GrouperOmitEmpty(rows, freq, col) ==
    LET B == { BinLabel(freq, d) : d \in Uniq(rows, "date") }
        InBin(b) == SelectSeq(rows, LAMBDA r : /\ ~isna(r["date"])
                                               /\ BinLabel(freq, r["date"][1]) = b)
    IN  [i \in 1..Cardinality(B) |->
            LET b == CHOOSE x \in B : Cardinality({ y \in B : y < x }) = i - 1
            IN  [date |-> b, revenue |-> SumCol(InBin(b), col)]]

\* df.groupby(pd.Grouper(key="date", freq=freq))[col].sum().reset_index():
\* one row per bin from the first dated row's bin to the last one's
Grouper(rows, freq, col) ==
    LET D == Uniq(rows, "date")
        B == IF D = {} THEN {}
             ELSE { b \in AllBins(freq) : /\ b >= BinLabel(freq, DateMin(rows))
                                          /\ b <= BinLabel(freq, DateMax(rows)) }
        InBin(b) == SelectSeq(rows, LAMBDA r : /\ ~isna(r["date"])
                                               /\ BinLabel(freq, r["date"][1]) = b)
    IN  [i \in 1..Cardinality(B) |->
            LET b == CHOOSE x \in B : Cardinality({ y \in B : y < x }) = i - 1
            IN  [date |-> b, revenue |-> SumCol(InBin(b), col)]]

\* line 220
top_prod(t) ==
    head(SortDesc(GroupSum(t.rows, <<"product_id", "product_name">>, TRUE, "revenue"),
                  "revenue"), HomeTopN)

\* line 227
channel_mix(t) == SortDesc(GroupSum(t.rows, <<"channel">>, TRUE, "revenue"), "revenue")

\* line 255
prod_rev(t, topn) ==
    head(SortDesc(GroupSum(t.rows, <<"product_name">>, TRUE, "revenue"), "revenue"), topn)

\* lines 274-276: pd.to_numeric(...).fillna(0) on qty, price and cost of df_f
Normalize(t) ==
    [t EXCEPT !.rows = [i \in DOMAIN t.rows |->
        [c \in DOMAIN t.rows[i] |->
            IF c \in {"qty", "price", "cost"} /\ isna(t.rows[i][c]) THEN V(0)
            ELSE t.rows[i][c]]]]

\* lines 278-283
prod_table(t) ==
    LET by == <<"product_id", "sku", "product_name", "category", "price", "cost">>
        g  == GroupSum(t.rows, by, FALSE, "qty")
        w  == [i \in DOMAIN g |->
                 g[i] @@ ("revenue" :> g[i]["price"][1] * g[i]["qty"]
                          @@ "margin" :> g[i]["price"][1] - g[i]["cost"][1])]
    IN  SortDesc(w, "revenue")

\* line 289
inv(t) == GroupSum(t.rows, <<"warehouse">>, TRUE, "inventory_on_hand")

\* a <= b for two means (null or a fraction); nothing compares with a null
MeanLeq(a, b) == ~isna(a) /\ ~isna(b) /\ a[1][1] * b[1][2] <= b[1][1] * a[1][2]

\* lines 298-299
low_stock(t, threshold) ==
    LET G == Groups(t.rows, <<"product_id", "product_name">>, TRUE)
        m == [i \in DOMAIN G |->
                G[i] @@ ("inventory_on_hand" :> mean(GroupRows(t.rows, G[i]), "inventory_on_hand"))]
        Before(j, i) == \/ (~isna(m[j]["inventory_on_hand"]) /\ isna(m[i]["inventory_on_hand"]))
                        \/ /\ MeanLeq(m[j]["inventory_on_hand"], m[i]["inventory_on_hand"])
                           /\ ~MeanLeq(m[i]["inventory_on_hand"], m[j]["inventory_on_hand"])
                        \/ /\ m[j]["inventory_on_hand"] = m[i]["inventory_on_hand"]
                           /\ j < i
        Pos(i) == 1 + Cardinality({ j \in DOMAIN m : Before(j, i) })
        sorted == [p \in DOMAIN m |-> m[CHOOSE i \in DOMAIN m : Pos(i) = p]]
        top == head(sorted, LowStockRows)
    IN  [i \in DOMAIN top |->
            top[i] @@ ("status" :>
                IF MeanLeq(top[i]["inventory_on_hand"], V(<<threshold, 1>>)) THEN "LOW" ELSE "OK")]

\* the ratio taken whenever the spend is not 0
roas_nonzero(revenue, spend) == IF spend # 0 THEN V(Ratio(revenue, spend)) ELSE NaN

\* line 309, for one row of ch_perf
roas(revenue, spend) == IF spend # 0 /\ spend > 0 THEN V(Ratio(revenue, spend)) ELSE NaN

\* lines 308-309
ch_perf(t) ==
    LET G == Groups(t.rows, <<"channel">>, TRUE)
    IN  [i \in DOMAIN G |->
            LET sp == SumCol(GroupRows(t.rows, G[i]), "spend")
                rv == SumCol(GroupRows(t.rows, G[i]), "revenue")
            IN  G[i] @@ ("spend" :> sp @@ "revenue" :> rv @@ "roas" :> roas(rv, sp))]

\* lines 317-325
funnel(t) ==
    [Visits |-> SumCol(t.rows, "visits"), AddToCart |-> SumCol(t.rows, "add_to_cart"),
     Checkout |-> SumCol(t.rows, "checkout"), Purchased |-> nunique(t.rows, "order_id")]

\* line 334
cust(t) ==
    head(SortDesc(GroupSum(t.rows, <<"customer_id">>, TRUE, "revenue"), "revenue"),
         TopCustomers)

\* Series.dt.to_period("M") on one cell
to_period(c) == IF isna(c) THEN NaN ELSE V(MonthOf(c[1]))

\* lines 341-342: the two columns the Customers screen adds to df
AddCohortColumns(t) ==
    [cols |-> t.cols \cup {"first_month", "order_month"},
     rows |-> [i \in DOMAIN t.rows |->
                 t.rows[i] @@ ("first_month" :> to_period(to_datetime(t.rows[i]["first_order_date"]))
                               @@ "order_month" :> to_period(t.rows[i]["date"]))]]

\* lines 343-344: cohorts, pivoted; a (first_month, order_month) pair without
\* a group is filled with 0
pivot(t) ==
    LET by == <<"first_month", "order_month">>
        K  == GroupKeys(t.rows, by, TRUE)
        cohorts(k) == nunique(GroupRows(t.rows, k), "customer_id")
    IN  [index   |-> { k["first_month"][1] : k \in K },
         columns |-> { k["order_month"][1] : k \in K },
         cell    |-> [ic \in { k["first_month"][1] : k \in K } \X { k["order_month"][1] : k \in K } |->
                        LET k == [first_month |-> V(ic[1]), order_month |-> V(ic[2])]
                        IN  IF k \in K THEN cohorts(k) ELSE 0]]

\* line 353: DataFrame.to_csv(index=False); a null is written as the empty field
to_csv(t) ==
    [header |-> t.cols,
     lines  |-> [i \in DOMAIN t.rows |->
                   [c \in t.cols |-> IF isna(t.rows[i][c]) THEN "" ELSE ToString(t.rows[i][c][1])]]]

(* ------------------------------ the run -------------------------------- *)

NoTable == [cols |-> {}, rows |-> <<>>]

\* the artifacts of a screen that it can show: one whose needed columns
\* t lacks is replaced by a notice (st.info)
Shown(t, needs) == { a \in DOMAIN needs : needs[a] \subseteq t.cols }

NoPivot == [index |-> {}, columns |-> {}, cell |-> <<>>]

Init ==
    /\ source \in Sources
    /\ pc = "start"
    /\ df = NoTable
    /\ min_date = 0
    /\ max_date = 0
    /\ start_date = 0
    /\ end_date = 0
    /\ sel_category = "All"
    /\ sel_channel = "All"
    /\ df_f = NoTable
    /\ nav = ""
    /\ view = [screen |-> ""]

\* line 109: df = load_data("data.csv"); st.cache_data hands every run its
\* own copy of the table
Load(now) ==
    /\ pc = "start"
    /\ df' = load_data(source, now)
    /\ pc' = "loaded"
    /\ UNCHANGED <<source, min_date, max_date, start_date, end_date, sel_category,
                   sel_channel, df_f, nav, view>>

\* lines 129-153: the sidebar widgets are read and the filters applied
Sidebar(now, s, e, cat, ch) ==
    /\ pc = "loaded"
    /\ cat \in categories(df)
    /\ ch \in channels(df)
    /\ min_date' = MinDate(df, now)
    /\ max_date' = MaxDate(df, now)
    /\ start_date' = s
    /\ end_date' = e
    /\ sel_category' = cat
    /\ sel_channel' = ch
    /\ df_f' = ApplyFilters(df, s, e, cat, ch)
    /\ pc' = "filtered"
    /\ UNCHANGED <<source, df, nav, view>>

\* lines 181-231
Home ==
    /\ pc = "filtered"
    /\ nav' = "Home"
    /\ view' = [screen        |-> "Home",
                total_revenue |-> total_revenue(df_f),
                total_orders  |-> total_orders(df_f),
                avg_aov       |-> avg_aov(total_revenue(df_f), total_orders(df_f)),
                new_customers |-> new_customers(df_f),
                avg_ltv       |-> mean(df_f.rows, "ltv"),
                shown         |-> Shown(df_f, [rev_ts   |-> {"revenue"},
                                                  top_prod |-> {"product_name", "revenue"},
                                                  ch       |-> {"channel", "revenue"}]),
                rev_ts        |-> IF "revenue" \in df_f.cols
                                  THEN Grouper(df_f.rows, "D", "revenue") ELSE <<>>,
                top_prod      |-> IF {"product_name", "revenue"} \subseteq df_f.cols
                                  THEN top_prod(df_f) ELSE <<>>,
                ch            |-> IF {"channel", "revenue"} \subseteq df_f.cols
                                  THEN channel_mix(df_f) ELSE <<>>]
    /\ pc' = "rendered"
    /\ UNCHANGED <<source, df, min_date, max_date, start_date, end_date, sel_category,
                   sel_channel, df_f>>

\* lines 233-261
SalesRevenue(gran, topn) ==
    /\ pc = "filtered"
    /\ nav' = "Sales & Revenue"
    /\ view' = [screen   |-> "Sales & Revenue",
                gran     |-> gran,
                topn     |-> topn,
                shown    |-> Shown(df_f, [rev_ts   |-> {"revenue"},
                                             prod_rev |-> {"product_name", "revenue"}]),
                rev_ts   |-> IF "revenue" \in df_f.cols
                             THEN Grouper(df_f.rows, gran, "revenue") ELSE <<>>,
                prod_rev |-> IF {"product_name", "revenue"} \subseteq df_f.cols
                             THEN prod_rev(df_f, topn) ELSE <<>>]
    /\ pc' = "rendered"
    /\ UNCHANGED <<source, df, min_date, max_date, start_date, end_date, sel_category,
                   sel_channel, df_f>>

\* lines 263-284
Products ==
    /\ pc = "filtered"
    /\ nav' = "Products"
    /\ IF {"product_id", "product_name", "qty"} \subseteq df_f.cols
       THEN /\ df_f' = Normalize(df_f)
            /\ view' = [screen |-> "Products", shown |-> {"prod_table"},
                        prod_table |-> head(prod_table(df_f'), ProductRows)]
       ELSE /\ df_f' = df_f
            /\ view' = [screen |-> "Products", shown |-> {}, prod_table |-> <<>>]
    /\ pc' = "rendered"
    /\ UNCHANGED <<source, df, min_date, max_date, start_date, end_date, sel_category,
                   sel_channel>>

\* lines 286-302
Inventory(threshold) ==
    /\ pc = "filtered"
    /\ nav' = "Inventory"
    /\ view' = [screen    |-> "Inventory",
                threshold |-> threshold,
                shown     |-> Shown(df_f, [inv       |-> {"warehouse", "inventory_on_hand"},
                                              low_stock |-> {"product_id", "inventory_on_hand",
                                                             "product_name"}]),
                inv       |-> IF {"warehouse", "inventory_on_hand"} \subseteq df_f.cols
                              THEN inv(df_f) ELSE <<>>,
                low_stock |-> IF {"product_id", "inventory_on_hand", "product_name"}
                                     \subseteq df_f.cols
                              THEN low_stock(df_f, threshold) ELSE <<>>]
    /\ pc' = "rendered"
    /\ UNCHANGED <<source, df, min_date, max_date, start_date, end_date, sel_category,
                   sel_channel, df_f>>

\* lines 304-329
Marketing ==
    /\ pc = "filtered"
    /\ nav' = "Marketing & Acquisition"
    /\ view' = [screen  |-> "Marketing & Acquisition",
                shown   |-> Shown(df_f, [ch_perf |-> {"spend", "revenue", "channel"},
                                            funnel  |-> {"visits"}]),
                ch_perf |-> IF {"spend", "revenue", "channel"} \subseteq df_f.cols
                            THEN ch_perf(df_f) ELSE <<>>,
                funnel  |-> IF "visits" \in df_f.cols THEN funnel(df_f) ELSE <<>>]
    /\ pc' = "rendered"
    /\ UNCHANGED <<source, df, min_date, max_date, start_date, end_date, sel_category,
                   sel_channel, df_f>>

\* the Customers screen with the cohort matrix taken from df_f
CustomersFiltered ==
    /\ pc = "filtered"
    /\ nav' = "Customers"
    /\ df' = AddCohortColumns(df)
    /\ view' = [screen |-> "Customers",
                shown  |-> {"cust", "pivot"},
                cust   |-> cust(df_f),
                pivot  |-> pivot(AddCohortColumns(df_f))]
    /\ pc' = "rendered"
    /\ UNCHANGED <<source, min_date, max_date, start_date, end_date, sel_category,
                   sel_channel, df_f>>

\* lines 331-347
Customers ==
    /\ pc = "filtered"
    /\ nav' = "Customers"
    /\ IF "first_order_date" \in df.cols
       THEN /\ df' = AddCohortColumns(df)
            /\ view' = [screen |-> "Customers",
                        shown  |-> Shown(df_f, [cust |-> {"customer_id", "revenue"}])
                                   \cup {"pivot"},
                        cust   |-> IF {"customer_id", "revenue"} \subseteq df_f.cols
                                   THEN cust(df_f) ELSE <<>>,
                        pivot  |-> pivot(df')]
       ELSE /\ df' = df
            /\ view' = [screen |-> "Customers",
                        shown  |-> Shown(df_f, [cust |-> {"customer_id", "revenue"}]),
                        cust   |-> IF {"customer_id", "revenue"} \subseteq df_f.cols
                                   THEN cust(df_f) ELSE <<>>,
                        pivot  |-> NoPivot]
    /\ pc' = "rendered"
    /\ UNCHANGED <<source, min_date, max_date, start_date, end_date, sel_category,
                   sel_channel, df_f>>

\* lines 349-363
Exports ==
    /\ pc = "filtered"
    /\ nav' = "Exports & Settings"
    /\ view' = [screen |-> "Exports & Settings", csv |-> to_csv(df_f)]
    /\ pc' = "rendered"
    /\ UNCHANGED <<source, df, min_date, max_date, start_date, end_date, sel_category,
                   sel_channel, df_f>>

\* a widget is touched: Streamlit runs the script again from the top
Rerun ==
    /\ pc = "rendered"
    /\ pc' = "start"
    /\ df' = NoTable
    /\ min_date' = 0
    /\ max_date' = 0
    /\ start_date' = 0
    /\ end_date' = 0
    /\ sel_category' = "All"
    /\ sel_channel' = "All"
    /\ df_f' = NoTable
    /\ nav' = ""
    /\ view' = [screen |-> ""]
    /\ UNCHANGED source

Next ==
    \/ \E now \in Todays : Load(now)
    \/ \E now \in Todays, s \in PickableDates, e \in PickableDates,
          cat \in {"All"} \cup Range(StrOrder), ch \in {"All"} \cup Range(StrOrder) :
            Sidebar(now, s, e, cat, ch)
    \/ Home
    \/ \E gran \in {"D", "W", "M"}, topn \in SliderStops : SalesRevenue(gran, topn)
    \/ Products
    \/ \E threshold \in Thresholds : Inventory(threshold)
    \/ Marketing
    \/ Customers
    \/ Exports
    \/ Rerun

Spec == Init /\ [][Next]_vars

(* ------------------------------ claims --------------------------------- *)

\* the rows of a table equal to r
Count(rows, r) == Cardinality({ i \in DOMAIN rows : rows[i] = r })

\* the filter spec's predicate on one row, as the specification words it
Matches(r) ==
    /\ r["date"] # NaN
    /\ start_date <= r["date"][1]
    /\ r["date"][1] <= end_date
    /\ (sel_category = "All" \/ r["category"] = <<sel_category>>)
    /\ (sel_channel = "All" \/ r["channel"] = <<sel_channel>>)

\* C1: once the filters are applied, df_f is exactly the rows of df whose
\* date lies in [start_date, end_date] and whose category and channel match
\* the selections (or the selection is All): every row of df_f is a row of
\* df and matches, every matching row of df is in df_f as often as in df,
\* the rows keep df's columns, and no row with a null date is in df_f.
C1_FilterExact ==
    pc = "filtered" =>
        /\ df_f.cols = df.cols
        /\ \A i \in DOMAIN df_f.rows :
              /\ \E j \in DOMAIN df.rows : df.rows[j] = df_f.rows[i]
              /\ Matches(df_f.rows[i])
              /\ df_f.rows[i]["date"] # NaN
        /\ \A j \in DOMAIN df.rows :
              Count(df_f.rows, df.rows[j]) =
                  (IF Matches(df.rows[j]) THEN Count(df.rows, df.rows[j]) ELSE 0)

\* the filter kept some rows and dropped others, one of them for its null
\* date, with a category and a channel selected and a row on the start date
C1_Witness ==
    /\ pc = "filtered"
    /\ sel_category # "All"
    /\ sel_channel # "All"
    /\ df_f.rows # <<>>
    /\ Len(df_f.rows) < Len(df.rows)
    /\ \E j \in DOMAIN df.rows : df.rows[j]["date"] = NaN
    /\ \E i \in DOMAIN df_f.rows : df_f.rows[i]["date"] = <<start_date>>

\* C2: on the Home screen the per-channel revenues of the channel mix add
\* up to the revenue KPI of the same filtered table.
C2_ChannelMixAddsUp ==
    (view.screen = "Home" /\ "ch" \in view.shown) =>
        SumField(view.ch, "revenue") = view.total_revenue

\* C3: at every point of a run after load_data, df has the columns and the
\* cells load_data returned.
C3_DatasetNeverMutated ==
    pc \in {"loaded", "filtered", "rendered"} =>
        \E now \in Todays : df = load_data(source, now)

\* C4: the AOV shown is 0 when df_f holds no non-null order_id, and is
\* total revenue / number of distinct non-null order_id otherwise.
C4_AovSafe ==
    view.screen = "Home" =>
        LET orders  == Cardinality({ df_f.rows[i]["order_id"] : i \in DOMAIN df_f.rows } \ {NaN})
            revenue == SumCol(df_f.rows, "revenue")
        IN  /\ view.total_orders = orders
            /\ view.total_revenue = revenue
            /\ orders = 0 => view.avg_aov = <<0, 1>>
            /\ orders > 0 => /\ view.avg_aov[2] > 0
                             /\ view.avg_aov[1] * orders = revenue * view.avg_aov[2]

\* no order_id in df_f, yet revenue to divide
C4_Witness ==
    /\ view.screen = "Home"
    /\ df_f.rows # <<>>
    /\ view.total_orders = 0
    /\ view.total_revenue # 0
    /\ view.avg_aov = <<0, 1>>

\* the distinct (product_id, product_name) pairs of df_f, both known
ProductsOf(rows) ==
    { <<rows[i]["product_id"], rows[i]["product_name"]>> :
        i \in { j \in DOMAIN rows : rows[j]["product_id"] # NaN /\ rows[j]["product_name"] # NaN } }

\* C5: the Top-N chart of the Sales & Revenue screen has min(N, k) rows, k
\* the number of distinct products (product_id, product_name) of df_f.
C5_TopNRowCount ==
    (view.screen = "Sales & Revenue" /\ "prod_rev" \in view.shown) =>
        LET k == Cardinality(ProductsOf(df_f.rows))
        IN  Len(view.prod_rev) = (IF view.topn < k THEN view.topn ELSE k)

\* source rows whose date cell is null after parsing (or has no date column)
AllDatesNull ==
    \A i \in DOMAIN source.rows :
        "date" \in source.cols => to_datetime(source.rows[i]["date"]) = NaN

\* C6: when no date of the source parses, every row of df carries one and
\* the same day, a day the run may take place on, min_date and max_date are
\* that day, and filtering on exactly that day with category and channel All
\* returns every row of the source.
C6_AllNullDates ==
    (pc = "filtered" /\ AllDatesNull) =>
        /\ min_date = max_date
        /\ min_date \in Todays
        /\ Len(df.rows) = Len(source.rows)
        /\ \A i \in DOMAIN df.rows : df.rows[i]["date"] = <<min_date>>
        /\ (start_date = min_date /\ end_date = min_date
              /\ sel_category = "All" /\ sel_channel = "All") => df_f.rows = df.rows

\* two rows whose date cells do not parse, both kept by the filter
C6_Witness ==
    /\ pc = "filtered"
    /\ AllDatesNull
    /\ "date" \in source.cols
    /\ Len(source.rows) >= 2
    /\ Len(df.rows) >= 2
    /\ start_date = min_date
    /\ end_date = min_date
    /\ sel_category = "All"
    /\ sel_channel = "All"
    /\ df_f.rows = df.rows

\* C7: an empty df or a range with start_date > end_date leaves df_f empty,
\* whatever category and channel are selected, and the filter step can be
\* taken for every such range.
C7_DegenerateFilter ==
    /\ (pc \in {"filtered", "rendered"} /\ (start_date > end_date \/ df.rows = <<>>))
          => df_f.rows = <<>>
    /\ pc = "loaded" =>
          \A s \in PickableDates, e \in PickableDates, cat \in categories(df), ch \in channels(df) :
              \E now \in Todays : ENABLED Sidebar(now, s, e, cat, ch)

\* an inverted range over a table with rows, a category selected
C7_Witness ==
    /\ pc = "filtered"
    /\ start_date > end_date
    /\ sel_category # "All"
    /\ Len(df.rows) >= 2
    /\ df_f.rows = <<>>

\* C8: the ROAS table has one row per channel of df_f; its roas is
\* revenue_sum / spend_sum of that channel's rows when spend_sum > 0 and null
\* otherwise; with no spend column in the source every roas is null.
C8_RoasSafe ==
    (view.screen = "Marketing & Acquisition" /\ "ch_perf" \in view.shown) =>
        /\ { view.ch_perf[i]["channel"] : i \in DOMAIN view.ch_perf } =
               { df_f.rows[j]["channel"] : j \in DOMAIN df_f.rows } \ {NaN}
        /\ \A i \in DOMAIN view.ch_perf :
              LET of == SelectSeq(df_f.rows, LAMBDA r : r["channel"] = view.ch_perf[i]["channel"])
                  sp == SumCol(of, "spend")
                  rv == SumCol(of, "revenue")
                  q  == view.ch_perf[i]["roas"]
              IN  /\ sp > 0 => /\ q # NaN
                               /\ q[1][2] > 0
                               /\ q[1][1] * sp = rv * q[1][2]
                  /\ sp <= 0 => q = NaN
                  /\ "spend" \notin source.cols => q = NaN

\* one channel with spend and a ratio, one with a negative spend sum and none
C8_Witness ==
    /\ view.screen = "Marketing & Acquisition"
    /\ \E i \in DOMAIN view.ch_perf :
          view.ch_perf[i]["spend"] > 0 /\ view.ch_perf[i]["roas"] # NaN
    /\ \E i \in DOMAIN view.ch_perf :
          view.ch_perf[i]["spend"] < 0 /\ view.ch_perf[i]["roas"] = NaN

\* the rows of df_f dated in the bin labelled b
RowsInBin(freq, b) ==
    { i \in DOMAIN df_f.rows :
        df_f.rows[i]["date"] # NaN /\ BinLabel(freq, df_f.rows[i]["date"][1]) = b }

\* the label of the bin after the one labelled b
NextBin(freq, b) ==
    CASE freq = "D" -> b + 1
      [] freq = "W" -> b + 7
      [] freq = "M" -> MonthEnds[MonthOf(b) + 1]

\* the granularity of the series on show: daily on Home (line 207), the
\* selected one on Sales & Revenue (line 243)
ShownGran == IF view.screen = "Home" THEN "D" ELSE view.gran

\* C9 as stated: every bucket of the revenue time series holds at least one
\* row of df_f.
C9_NoEmptyBucket ==
    (view.screen \in {"Home", "Sales & Revenue"} /\ "rev_ts" \in view.shown) =>
        \A i \in DOMAIN view.rev_ts : RowsInBin(ShownGran, view.rev_ts[i].date) # {}

\* C9 amended: the series has one bucket for every day, week or month from
\* the bucket of the earliest dated row of df_f to the bucket of the latest,
\* in order and without gaps; each carries the revenue sum of its rows, 0
\* when it has none; the first and the last bucket are never empty.
C9_ZeroFilledSeries ==
    (view.screen \in {"Home", "Sales & Revenue"} /\ "rev_ts" \in view.shown) =>
        LET ts == view.rev_ts
            g  == ShownGran
        IN  /\ (ts = <<>>) <=> (\A i \in DOMAIN df_f.rows : df_f.rows[i]["date"] = NaN)
            /\ \A i \in DOMAIN df_f.rows :
                  df_f.rows[i]["date"] # NaN =>
                      \E b \in DOMAIN ts : ts[b].date = BinLabel(g, df_f.rows[i]["date"][1])
            /\ \A b \in DOMAIN ts :
                  /\ b < Len(ts) => ts[b + 1].date = NextBin(g, ts[b].date)
                  /\ b \in {1, Len(ts)} => RowsInBin(g, ts[b].date) # {}
                  /\ ts[b].revenue =
                        SumCol(SelectSeq(df_f.rows, LAMBDA r :
                                   r["date"] # NaN /\ BinLabel(g, r["date"][1]) = ts[b].date),
                               "revenue")

\* a monthly series with a month in the middle that has no row
C9_Witness ==
    /\ view.screen = "Sales & Revenue"
    /\ view.gran = "M"
    /\ Len(view.rev_ts) = 3
    /\ RowsInBin("M", view.rev_ts[2].date) = {}
    /\ view.rev_ts[2].revenue = 0
    /\ view.rev_ts[1].revenue > 0

\* C10: the cohort matrix counts, per first-order month and order month, the
\* distinct customers over all the rows of df, filtered out or not, with 0
\* where there is none; the top-customers table sums revenue per customer
\* over the rows of df_f only.
C10_CohortUnfiltered ==
    (view.screen = "Customers" /\ {"pivot", "cust"} \subseteq view.shown) =>
        LET fm(r) == to_period(to_datetime(r["first_order_date"]))
            om(r) == to_period(r["date"])
            all   == { i \in DOMAIN df.rows : fm(df.rows[i]) # NaN /\ om(df.rows[i]) # NaN }
        IN  /\ view.pivot.index = { fm(df.rows[i])[1] : i \in all }
            /\ view.pivot.columns = { om(df.rows[i])[1] : i \in all }
            /\ DOMAIN view.pivot.cell = view.pivot.index \X view.pivot.columns
            /\ \A ic \in DOMAIN view.pivot.cell :
                  view.pivot.cell[ic] =
                      Cardinality({ df.rows[i]["customer_id"] :
                          i \in { j \in all : /\ fm(df.rows[j]) = <<ic[1]>>
                                              /\ om(df.rows[j]) = <<ic[2]>> } } \ {NaN})
            /\ { view.cust[i]["customer_id"] : i \in DOMAIN view.cust } =
                   { df_f.rows[j]["customer_id"] : j \in DOMAIN df_f.rows } \ {NaN}
            /\ \A i \in DOMAIN view.cust :
                  view.cust[i]["revenue"] =
                      SumCol(SelectSeq(df_f.rows, LAMBDA r :
                                 r["customer_id"] = view.cust[i]["customer_id"]), "revenue")

\* nothing passes the filter, yet the matrix has customers and a 0 cell
C10_Witness ==
    /\ view.screen = "Customers"
    /\ df_f.rows = <<>>
    /\ view.cust = <<>>
    /\ \E ic \in DOMAIN view.pivot.cell : view.pivot.cell[ic] > 0
    /\ \E ic \in DOMAIN view.pivot.cell : view.pivot.cell[ic] = 0

====
